---- MODULE Spec2Model ----
(***************************************************************************)
(* Reservation admission of the restaurant backend.                        *)
(*                                                                         *)
(* The admission routines work on the same two DynamoDB tables:             *)
(*   "index"    : handleCreateReservation, api_handler/index.js            *)
(*   "index1"   : createReservation,       api_handler/index1.js           *)
(*   "index2"   : handleReservationCreate, api_handler/index.js, the       *)
(*                second handler of the file (lines 531-909)               *)
(*   "part_000" : the POST /reservations branch of src/unnamed/part_000    *)
(* A call runs from one await to the next; each await on the store is one  *)
(* action of the model, taken when the store executes the operation and    *)
(* the continuation of the handler runs.                                   *)
(*                                                                         *)
(* Encoding of values:                                                     *)
(*   - a time string "HH:MM" is the pair <<HH, MM>>, a date string         *)
(*     "YYYY-MM-DD" is the triple <<YYYY, MM, DD>>; the empty tuple <<>>   *)
(*     stands for a missing or empty string (both falsy in JavaScript);    *)
(*   - <<YYYY, MM, DD, 1>> is the same day written with other separators   *)
(*     ("2024/06/01"): another string, the same Date once parsed;          *)
(*   - a missing or empty clientName / phoneNumber is "";                  *)
(*   - a missing tableNumber is 0 (undefined and 0 are both falsy);        *)
(*   - event.body is the already decoded request object.                   *)
(***************************************************************************)
EXTENDS Integers, FiniteSets, Sequences, TLC

\* ------------------------------------------------------------------ bounds
\* Number of POST /reservations calls started in one behaviour.
MaxCalls == 2

\* Lambda invocations that may be in flight at the same time.
Procs == {1, 2}

Variants == {"index", "index1"}

\* ------------------------------------------------------------ input values
Missing == <<>>

Slots == {<<18, 0>>, <<18, 30>>, <<19, 0>>, <<19, 30>>}

\* Requested windows <<slotTimeStart, slotTimeEnd>>: every window with
\* start before end, a zero-length window and an inverted one.
Windows ==
    {w \in Slots \X Slots : w[1][1] * 60 + w[1][2] < w[2][1] * 60 + w[2][2]}
    \cup {<<<<19, 0>>, <<19, 0>>>>, <<<<19, 30>>, <<18, 0>>>>}

\* The Tables store before the first reservation call. The storage id of a
\* table is not its number; table 1 exists, table 2 may not.
InitialTables ==
    { {[id |-> 2, number |-> 1]},
      {[id |-> 2, number |-> 1], [id |-> 1, number |-> 2]} }

\* <<tableNumber, date>> of the requests: every window is requested for
\* table 1 on 2024-06-01, two overlapping windows for the same table on
\* another date and for another table on the same date.
Targets == {<<1, <<2024, 6, 1>>>>}

OtherTargets == {<<1, <<2024, 6, 2>>>>, <<2, <<2024, 6, 1>>>>}

OtherWindows == {<<<<18, 0>>, <<19, 0>>>>, <<<<18, 30>>, <<19, 30>>>>}

\* Table 1 on 2024-06-01 again, the date written "2024/06/01".
RespelledTargets == {<<1, <<2024, 6, 1, 1>>>>}

RespelledWindows == {<<<<18, 0>>, <<19, 0>>>>}

RequestFor(t, w) ==
    [token |-> "valid", tableNumber |-> t[1], clientName |-> "Ann",
     phoneNumber |-> "555", date |-> t[2], slotTimeStart |-> w[1],
     slotTimeEnd |-> w[2]]

ValidRequests ==
    {RequestFor(t, w) : t \in Targets, w \in Windows}
    \cup {RequestFor(t, w) : t \in OtherTargets, w \in OtherWindows}
    \cup {RequestFor(t, w) : t \in RespelledTargets, w \in RespelledWindows}

BaseRequest ==
    [token |-> "valid", tableNumber |-> 1, clientName |-> "Ann",
     phoneNumber |-> "555", date |-> <<2024, 6, 1>>,
     slotTimeStart |-> <<18, 0>>, slotTimeEnd |-> <<19, 0>>]

\* BaseRequest with one of its fields missing, or with a token that fails.
DefectiveRequests ==
    { [BaseRequest EXCEPT !.tableNumber = 0],
      [BaseRequest EXCEPT !.clientName = ""],
      [BaseRequest EXCEPT !.phoneNumber = ""],
      [BaseRequest EXCEPT !.date = Missing],
      [BaseRequest EXCEPT !.slotTimeStart = Missing],
      [BaseRequest EXCEPT !.slotTimeEnd = Missing],
      [BaseRequest EXCEPT !.token = "none"],
      [BaseRequest EXCEPT !.token = "noclaims"] }

Requests == ValidRequests \cup DefectiveRequests

NoRequest == [BaseRequest EXCEPT !.token = "none", !.tableNumber = 0]

\* Bodies sent to handleReservationCreate, which reads no token and checks
\* no field: the valid requests, one without a token, one without a
\* tableNumber and one without a clientName.
CreateRequests ==
    ValidRequests
    \cup { [BaseRequest EXCEPT !.token = "none"],
           [BaseRequest EXCEPT !.tableNumber = 0],
           [BaseRequest EXCEPT !.clientName = ""] }

\* Bodies sent to part_000, which puts the body as the item: the id is the
\* caller's, and may be the id of a stored reservation.
RawIds == {1, 2}

RawRequests ==
    { [BaseRequest EXCEPT !.token = "none"],
      RequestFor(<<1, <<2024, 6, 1>>>>, <<<<18, 30>>, <<19, 30>>>>) }

\* Bodies of POST /tables: id and number, each present or missing (0);
\* places and isVip are present and well typed.
TableBodies == {[id |-> i, number |-> n] : i \in {0, 3}, n \in {0, 1, 2}}

AllVariants == {"index", "index1", "index2", "part_000"}

\* The Authorization header: a token with the claims the handler reads, no
\* token, a token that decodes without them.
Tokens == {"valid", "none", "noclaims"}

\* POST /reservations bodies that differ in the token only.
TokenRequests == {[BaseRequest EXCEPT !.token = k] : k \in Tokens}

\* The GET routes, and the tableId of the path: missing or not a positive
\* number (0), the id of a stored table, the id of none.
ReadRoutes == {"GET /tables", "GET /tables/{tableId}", "GET /reservations"}

PathIds == {0, 2, 9}

\* Every time string "HH:MM" of a day.
TimeStrings == {<<h, m>> : h \in 0 .. 23, m \in 0 .. 59}

\* --------------------------------------------------------------- state
VARIABLES
    tables,        \* the Tables store: set of [id, number]
    reservations,  \* the Reservations store: set of reservation items
    nextId,        \* source of fresh uuids
    calls,         \* calls started so far
    pc,            \* per invocation: "idle", "tscan", "rscan", "put", "done",
                   \* and "rscan2", "put2" in the second implementation of
                   \* handleCreateReservation (index.js lines 478-520)
    variant,       \* per invocation: the routine that serves it
    req,           \* per invocation: event.body and the Authorization token
    item,          \* per invocation: the id generated for the record to put
    ops,           \* per invocation: store operations issued by the call,
                   \* and the puts that changed the store
    faulted,       \* per invocation: a store operation of the call threw
    response,      \* per invocation: the formatResponse result
    returned,      \* per invocation: the reservationId in the response body
    parsed         \* per invocation: the last result of parseTime

vars == <<tables, reservations, nextId, calls, pc, variant, req, item, ops,
          faulted, response, returned, parsed>>

\* ------------------------------------------------------- pure functions
\* Faulty variant: the two numbers of the string taken in the other order.
parseTimeSwapped(timeStr) == timeStr[1] + timeStr[2] * 60

\* index.js: parseTime
parseTime(timeStr) == timeStr[1] * 60 + timeStr[2]

\* index1.js: new Date(`${date} ${slot}`), compared through its time value.
\* Minutes since an epoch; any two dates are at least a day apart. Only the
\* year, month and day of the string enter the value, not its spelling.
DateValue(date, slot) ==
    ((date[1] * 12 + date[2]) * 31 + date[3]) * 1440 + slot[1] * 60 + slot[2]

\* Faulty variants of the conflict test: closed intervals; only the new
\* start tested; only containment of the new window tested.
OverlapsClosed(newStart, newEnd, existingStart, existingEnd) ==
    newStart <= existingEnd /\ existingStart <= newEnd

OverlapsStartOnly(newStart, newEnd, existingStart, existingEnd) ==
    existingStart <= newStart /\ newStart < existingEnd

OverlapsContained(newStart, newEnd, existingStart, existingEnd) ==
    existingStart <= newStart /\ newEnd <= existingEnd

\* index.js line 438: the conflict test of handleCreateReservation
Overlaps(newStart, newEnd, existingStart, existingEnd) ==
    newStart < existingEnd /\ existingStart < newEnd

\* Faulty variant of the Date conflict test: the half-open overlap test.
Conflict1HalfOpen(r, q) ==
    /\ DateValue(q.date, q.slotTimeStart) < DateValue(r.date, r.slotTimeEnd)
    /\ DateValue(r.date, r.slotTimeStart) < DateValue(q.date, q.slotTimeEnd)

\* index1.js lines 262-269: the conflict test of createReservation;
\* index.js lines 873-881: the same test in validateReservation
Conflict1(r, q) ==
    LET actualStart == DateValue(r.date, r.slotTimeStart)
        actualEnd == DateValue(r.date, r.slotTimeEnd)
        reqStart == DateValue(q.date, q.slotTimeStart)
        reqEnd == DateValue(q.date, q.slotTimeEnd)
    IN  \/ actualStart <= reqStart /\ actualEnd >= reqStart
        \/ actualStart <= reqEnd /\ actualEnd >= reqEnd

formatResponse(statusCode, kind) == [statusCode |-> statusCode, kind |-> kind]

NoResponse == formatResponse(0, "none")

\* Store operations issued by a call: scans and gets of the table store,
\* puts to it, scans of the reservation store, puts to it, and the puts to
\* the reservation store that have completed.
NoOps ==
    [tscan |-> 0, tget |-> 0, tput |-> 0, rscan |-> 0, put |-> 0, written |-> 0]

\* Faulty variant: any token that is present passes.
AuthorizedAnyToken(q) == q.token # "none"

\* index.js lines 374-393 / index1.js lines 55-59, 110-127
Authorized(q) == q.token = "valid"

AuthFailure(v) ==
    IF v = "index" THEN formatResponse(400, "Unauthorized")
    ELSE formatResponse(401, "Unauthorized")

\* Faulty variant for index.js: the field check also demands that the
\* window starts before it ends.
FieldsPresentAndOrdered(v, q) ==
    /\ q.tableNumber # 0
    /\ q.date # Missing
    /\ q.slotTimeStart # Missing
    /\ q.slotTimeEnd # Missing
    /\ v = "index" => parseTime(q.slotTimeStart) < parseTime(q.slotTimeEnd)
    /\ v # "index" => q.clientName # "" /\ q.phoneNumber # ""

\* index.js line 398 / index1.js line 251
FieldsPresent(v, q) ==
    IF v = "index"
    THEN /\ q.tableNumber # 0
         /\ q.date # Missing
         /\ q.slotTimeStart # Missing
         /\ q.slotTimeEnd # Missing
    ELSE /\ q.tableNumber # 0
         /\ q.clientName # ""
         /\ q.phoneNumber # ""
         /\ q.date # Missing
         /\ q.slotTimeStart # Missing
         /\ q.slotTimeEnd # Missing

\* Faulty variant: the lookup goes by the storage key.
TablesById(number) == {t \in tables : t.id = number}

\* index.js lines 404-411 (scan filtered on #num) / index1.js getTableByNumber
TablesByNumber(number) == {t \in tables : t.number = number}

\* index.js lines 418-428: scan filtered on tableNumber and date;
\* index1.js getReservationsByTableNumber and index.js
\* getReservationByTableNumber: filtered on tableNumber only
FetchReservations(v, q) ==
    IF v = "index"
    THEN {r \in reservations : r.tableNumber = q.tableNumber /\ r.date = q.date}
    ELSE {r \in reservations : r.tableNumber = q.tableNumber}

\* The orders in which a scan may return the items of a set.
ScanOrders(S) ==
    {o \in [1 .. Cardinality(S) -> S] :
        \A i, j \in 1 .. Cardinality(S) : i # j => o[i] # o[j]}

\* Faulty variant of the loop: only the first fetched reservation is tested.
FirstConflictHeadOnly(q, order) ==
    IF DOMAIN order # {}
       /\ Overlaps(parseTime(q.slotTimeStart), parseTime(q.slotTimeEnd),
                   parseTime(order[1].slotTimeStart),
                   parseTime(order[1].slotTimeEnd))
    THEN 1 ELSE 0

\* index.js lines 433-442, the loop from position i on: the position of the
\* reservation at which the loop returns, 0 when it runs to the end.
RECURSIVE LoopFrom(_, _, _)
LoopFrom(q, order, i) ==
    IF i \notin DOMAIN order THEN 0
    ELSE IF Overlaps(parseTime(q.slotTimeStart), parseTime(q.slotTimeEnd),
                     parseTime(order[i].slotTimeStart),
                     parseTime(order[i].slotTimeEnd))
    THEN i
    ELSE LoopFrom(q, order, i + 1)

\* index.js lines 433-442
FirstConflict(q, order) == LoopFrom(q, order, 1)

\* index.js lines 433-442 / index1.js lines 262-269 / index.js lines 873-881
HasConflict(v, q, order) ==
    IF v = "index"
    THEN FirstConflict(q, order) # 0
    ELSE \E i \in DOMAIN order : Conflict1(order[i], q)

\* index.js line 444 calls uidv4, a name that is bound nowhere in the file
\* (line 4 binds uuidv4): the call throws a ReferenceError.
\* index1.js line 275 calls uuidv4.
IdGeneratorBound(v) == v # "index"

\* Faulty variant: the catch clause answers a thrown error like a bad request.
CaughtErrorAsBadRequest(v) == formatResponse(400, "InternalError")

\* The catch clause a thrown error ends in before the put:
\* index.js lines 521-523, index1.js lines 291-294, index.js lines 857-860
CaughtError(v) ==
    IF v = "index2" THEN formatResponse(400, "Failed")
    ELSE formatResponse(500, "InternalError")

\* Faulty variant: the catch clause swallows the failure.
PutErrorSwallowed(v) == formatResponse(200, "Success")

\* A failed put: index.js inner catch lines 461-464, index1.js lines 291-294,
\* index.js lines 857-860, part_000 outer catch
PutError(v) ==
    IF v = "index" THEN formatResponse(400, "PutFailed")
    ELSE IF v = "index2" THEN formatResponse(400, "Failed")
    ELSE formatResponse(500, "InternalError")

\* The response after the put: 200 with the reservationId, part_000 201
\* with a message only.
PutDone(v) ==
    IF v = "part_000" THEN formatResponse(201, "Success")
    ELSE formatResponse(200, "Success")

ReturnedId(v, id) == IF v = "part_000" THEN 0 ELSE id

\* Faulty variant: the record is written under another id than the one
\* kept for the response.
ReservationItemOtherId(id, q) ==
    [id |-> id + 10, tableNumber |-> q.tableNumber, clientName |-> q.clientName,
     phoneNumber |-> q.phoneNumber, date |-> q.date,
     slotTimeStart |-> q.slotTimeStart, slotTimeEnd |-> q.slotTimeEnd]

ReservationItem(id, q) ==
    [id |-> id, tableNumber |-> q.tableNumber, clientName |-> q.clientName,
     phoneNumber |-> q.phoneNumber, date |-> q.date,
     slotTimeStart |-> q.slotTimeStart, slotTimeEnd |-> q.slotTimeEnd]

\* Faulty variant: a conditional put that refuses an item whose window
\* meets a stored one for the same table and date.
PutItemIfFree(store, it) ==
    IF \E r \in store :
          /\ r.tableNumber = it.tableNumber
          /\ r.date = it.date
          /\ r.slotTimeStart = it.slotTimeStart
       THEN store
       ELSE {r \in store : r.id # it.id} \cup {it}

\* Faulty variant: the block of lines 444-464 is absent and the loop is
\* followed by the second implementation at line 478.
AfterChecksSecond(v) == IF v = "index" THEN "second" ELSE "insert"

\* What follows the conflict test: in every routine the block that generates
\* the id and puts the record (index.js lines 444-464, whose try and catch
\* both return).
AfterChecks(v) == "insert"

\* index.js line 478: table = tableResult.Items[0]
FirstTable(number) == CHOOSE t \in {t2 \in tables : t2.number = number} : TRUE

\* index.js lines 480-494: the scan of the second implementation, filtered
\* on the attributes tableId, date, time and slotTimeEnd, which only records
\* written by that implementation have.
SecondScan(q) ==
    {r \in reservations :
        /\ "tableId" \in DOMAIN r
        /\ r.tableId = FirstTable(q.tableNumber).id
        /\ r.date = q.date
        /\ \/ /\ parseTime(q.slotTimeStart) <= parseTime(r.time)
              /\ parseTime(r.time) <= parseTime(q.slotTimeEnd)
           \/ /\ parseTime(r.time) <= parseTime(q.slotTimeStart)
              /\ parseTime(q.slotTimeStart) <= parseTime(r.slotTimeEnd)}

\* index.js lines 500-511: the record of the second implementation
\* (username and createdAt left out)
SecondItem(id, q) ==
    [id |-> id, tableId |-> FirstTable(q.tableNumber).id,
     tableNumber |-> FirstTable(q.tableNumber).number,
     clientName |-> q.clientName, phoneNumber |-> q.phoneNumber,
     date |-> q.date, time |-> q.slotTimeStart, slotTimeEnd |-> q.slotTimeEnd]

\* DynamoDB put: the item replaces the one with the same key
PutItem(store, it) == {r \in store : r.id # it.id} \cup {it}

\* ------------------------------------------------- POST /tables helpers
\* index.js lines 239-245 (typeof tests), index1.js line 203; the second
\* handler of index.js and part_000 test nothing.
TableFieldsPresent(v, t) ==
    IF v = "index" THEN t.number # 0
    ELSE IF v = "index1" THEN t.id # 0 /\ t.number # 0
    ELSE TRUE

\* The key of the item that is put: index.js line 247 generates one when the
\* body has none; the others put the body's id, missing or not.
TableKey(v, t) ==
    IF t.id # 0 THEN t.id
    ELSE IF v = "index" THEN 10 + nextId
    ELSE 0

\* index.js lines 259-262 and 770-773 answer 400; index1.js lines 215-218
\* and the outer catch of part_000 answer 500.
TablePutError(v) ==
    IF v \in {"index", "index2"} THEN formatResponse(400, "Failed")
    ELSE formatResponse(500, "InternalError")

TableCreated(v) ==
    IF v = "part_000" THEN formatResponse(201, "TableCreated")
    ELSE formatResponse(200, "TableCreated")

\* ------------------------------------------------------------------ Init
Init ==
    /\ tables \in InitialTables
    /\ reservations = {}
    /\ nextId = 1
    /\ calls = 0
    /\ pc = [p \in Procs |-> "idle"]
    /\ variant = [p \in Procs |-> "index"]
    /\ req = [p \in Procs |-> NoRequest]
    /\ item = [p \in Procs |-> 0]
    /\ ops = [p \in Procs |-> NoOps]
    /\ faulted = [p \in Procs |-> FALSE]
    /\ response = [p \in Procs |-> NoResponse]
    /\ returned = [p \in Procs |-> 0]
    /\ parsed = [p \in Procs |-> 0]

\* --------------------------------------------------------------- actions
Finish(p, resp) ==
    /\ pc' = [pc EXCEPT ![p] = "done"]
    /\ response' = [response EXCEPT ![p] = resp]

\* An invocation that serves no call: it has not started, or it has returned
\* its response.
Free(p) == pc[p] \in {"idle", "done"}

\* A call arrives at the first free invocation.
Dispatch(p, v, q) ==
    /\ Free(p)
    /\ \A p2 \in Procs : Free(p2) => p <= p2
    /\ calls < MaxCalls
    /\ calls' = calls + 1
    /\ variant' = [variant EXCEPT ![p] = v]
    /\ req' = [req EXCEPT ![p] = q]
    /\ returned' = [returned EXCEPT ![p] = 0]

\* POST /reservations arrives at handleCreateReservation or createReservation:
\* token check, field check, table scan issued.
Receive(p, v, q) ==
    /\ Dispatch(p, v, q)
    /\ item' = [item EXCEPT ![p] = 0]
    /\ faulted' = [faulted EXCEPT ![p] = FALSE]
    /\ IF ~Authorized(q)
       THEN /\ Finish(p, AuthFailure(v))
            /\ ops' = [ops EXCEPT ![p] = NoOps]
       ELSE IF ~FieldsPresent(v, q)
       THEN /\ Finish(p, formatResponse(400, "MissingFields"))
            /\ ops' = [ops EXCEPT ![p] = NoOps]
       ELSE /\ pc' = [pc EXCEPT ![p] = "tscan"]
            /\ ops' = [ops EXCEPT ![p] = [NoOps EXCEPT !.tscan = 1]]
            /\ response' = [response EXCEPT ![p] = NoResponse]
    /\ UNCHANGED <<tables, reservations, nextId, parsed>>

\* POST /reservations arrives at handleReservationCreate (index.js lines
\* 821-861): the id is generated, validateReservation issues the table scan.
ReceiveCreate(p, q) ==
    /\ Dispatch(p, "index2", q)
    /\ faulted' = [faulted EXCEPT ![p] = FALSE]
    /\ item' = [item EXCEPT ![p] = nextId]
    /\ nextId' = nextId + 1
    /\ pc' = [pc EXCEPT ![p] = "tscan"]
    /\ ops' = [ops EXCEPT ![p] = [NoOps EXCEPT !.tscan = 1]]
    /\ response' = [response EXCEPT ![p] = NoResponse]
    /\ UNCHANGED <<tables, reservations, parsed>>

\* POST /reservations arrives at part_000 (lines 53-56): the body is parsed
\* and put as it is.
ReceiveRaw(p, id, q) ==
    /\ Dispatch(p, "part_000", q)
    /\ faulted' = [faulted EXCEPT ![p] = FALSE]
    /\ item' = [item EXCEPT ![p] = id]
    /\ pc' = [pc EXCEPT ![p] = "put"]
    /\ ops' = [ops EXCEPT ![p] = [NoOps EXCEPT !.put = 1]]
    /\ response' = [response EXCEPT ![p] = NoResponse]
    /\ UNCHANGED <<tables, reservations, nextId, parsed>>

\* POST /tables, from its arrival to the response: token check and field
\* check where the handler has them, then the put.
CreateTable(p, v, t, token, ok) ==
    /\ Dispatch(p, v, [NoRequest EXCEPT !.token = token])
    /\ item' = [item EXCEPT ![p] = 0]
    /\ IF v \in {"index", "index1"}
          /\ ~Authorized([NoRequest EXCEPT !.token = token])
       THEN /\ Finish(p, AuthFailure(v))
            /\ ops' = [ops EXCEPT ![p] = NoOps]
            /\ faulted' = [faulted EXCEPT ![p] = FALSE]
            /\ UNCHANGED <<tables, nextId>>
       ELSE IF ~TableFieldsPresent(v, t)
       THEN /\ Finish(p, formatResponse(400, "MissingFields"))
            /\ ops' = [ops EXCEPT ![p] = NoOps]
            /\ faulted' = [faulted EXCEPT ![p] = FALSE]
            /\ UNCHANGED <<tables, nextId>>
       ELSE /\ nextId' = IF t.id = 0 /\ v = "index" THEN nextId + 1 ELSE nextId
            /\ ops' = [ops EXCEPT ![p] = [NoOps EXCEPT !.tput = 1]]
            /\ IF ok /\ TableKey(v, t) # 0
               THEN /\ tables' =
                        PutItem(tables, [id |-> TableKey(v, t),
                                         number |-> t.number])
                    /\ Finish(p, TableCreated(v))
                    /\ faulted' = [faulted EXCEPT ![p] = FALSE]
               ELSE /\ Finish(p, TablePutError(v))
                    /\ faulted' = [faulted EXCEPT ![p] = TRUE]
                    /\ UNCHANGED tables
    /\ UNCHANGED <<reservations, parsed>>

\* The store operation of a GET route.
ReadOps(route) ==
    IF route = "GET /tables" THEN [NoOps EXCEPT !.tscan = 1]
    ELSE IF route = "GET /tables/{tableId}" THEN [NoOps EXCEPT !.tget = 1]
    ELSE [NoOps EXCEPT !.rscan = 1]

\* A GET route whose store operation threw: index.js lines 199-202 and
\* 327-330 answer 500, lines 365-368 (handleGetReservations) 400; index1.js
\* answers 500 everywhere.
ReadError(v, route) ==
    IF v = "index" /\ route = "GET /reservations"
    THEN formatResponse(400, "Failed")
    ELSE formatResponse(500, "InternalError")

\* GET /tables, GET /tables/{tableId} and GET /reservations of the first
\* handler of index.js and of index1.js, from arrival to response: token
\* check, check of the path parameter, then the scan or get.
Read(p, v, route, id, token, ok) ==
    /\ Dispatch(p, v, [NoRequest EXCEPT !.token = token])
    /\ item' = [item EXCEPT ![p] = 0]
    /\ IF ~Authorized([NoRequest EXCEPT !.token = token])
       THEN /\ Finish(p, AuthFailure(v))
            /\ ops' = [ops EXCEPT ![p] = NoOps]
            /\ faulted' = [faulted EXCEPT ![p] = FALSE]
       ELSE IF route = "GET /tables/{tableId}" /\ id = 0
       THEN /\ Finish(p, formatResponse(400, "MissingFields"))
            /\ ops' = [ops EXCEPT ![p] = NoOps]
            /\ faulted' = [faulted EXCEPT ![p] = FALSE]
       ELSE /\ ops' = [ops EXCEPT ![p] = ReadOps(route)]
            /\ faulted' = [faulted EXCEPT ![p] = ~ok]
            /\ Finish(p, IF ~ok THEN ReadError(v, route)
                         ELSE IF /\ route = "GET /tables/{tableId}"
                                 /\ ~\E t \in tables : t.id = id
                         THEN formatResponse(404, "NotFound")
                         ELSE formatResponse(200, "Read"))
    /\ UNCHANGED <<tables, reservations, nextId, parsed>>

\* Faulty variant: a table scan that threw is issued once more.
TableScanRetrying(p, ok) ==
    /\ pc[p] = "tscan"
    /\ IF ~ok /\ ops[p].tscan < 2
       THEN /\ ops' = [ops EXCEPT ![p].tscan = @ + 1]
            /\ UNCHANGED <<pc, response, faulted>>
       ELSE IF ~ok
       THEN /\ Finish(p, CaughtError(variant[p]))
            /\ faulted' = [faulted EXCEPT ![p] = TRUE]
            /\ UNCHANGED ops
       ELSE IF TablesByNumber(req[p].tableNumber) = {}
       THEN /\ Finish(p, formatResponse(400, "TableNotFound"))
            /\ UNCHANGED <<ops, faulted>>
       ELSE /\ pc' = [pc EXCEPT ![p] = "rscan"]
            /\ ops' = [ops EXCEPT ![p].rscan = @ + 1]
            /\ UNCHANGED <<response, faulted>>
    /\ UNCHANGED <<tables, reservations, nextId, calls, variant, req, item,
                   returned, parsed>>

\* The table scan completes and the reservation scan is issued.
TableScan(p, ok) ==
    /\ pc[p] = "tscan"
    /\ IF ~ok
       THEN /\ Finish(p, CaughtError(variant[p]))
            /\ faulted' = [faulted EXCEPT ![p] = TRUE]
            /\ UNCHANGED ops
       ELSE IF TablesByNumber(req[p].tableNumber) = {}
       THEN /\ Finish(p, formatResponse(400, "TableNotFound"))
            /\ UNCHANGED <<ops, faulted>>
       ELSE /\ pc' = [pc EXCEPT ![p] = "rscan"]
            /\ ops' = [ops EXCEPT ![p].rscan = @ + 1]
            /\ UNCHANGED <<response, faulted>>
    /\ UNCHANGED <<tables, reservations, nextId, calls, variant, req, item,
                   returned, parsed>>

\* The reservation scan completes with its items in some order, the conflict
\* test runs, the id is generated (handleReservationCreate has generated it
\* before) and the put is issued.
ReservationScan(p, ok, order) ==
    /\ pc[p] \in {"rscan", "rscan2"}
    /\ order \in ScanOrders(FetchReservations(variant[p], req[p]))
    /\ IF ~ok
       THEN /\ Finish(p, CaughtError(variant[p]))
            /\ faulted' = [faulted EXCEPT ![p] = TRUE]
            /\ UNCHANGED <<ops, item, nextId>>
       ELSE IF pc[p] = "rscan2"
       THEN \* index.js lines 495-514, the second implementation
            IF SecondScan(req[p]) # {}
            THEN /\ Finish(p, formatResponse(400, "Overlap"))
                 /\ UNCHANGED <<ops, item, nextId, faulted>>
            ELSE /\ pc' = [pc EXCEPT ![p] = "put2"]
                 /\ item' = [item EXCEPT ![p] = nextId]
                 /\ nextId' = nextId + 1
                 /\ ops' = [ops EXCEPT ![p].put = @ + 1]
                 /\ UNCHANGED <<response, faulted>>
       ELSE IF HasConflict(variant[p], req[p], order)
       THEN /\ Finish(p, formatResponse(400, "Overlap"))
            /\ UNCHANGED <<ops, item, nextId, faulted>>
       ELSE IF AfterChecks(variant[p]) = "second"
       THEN \* index.js lines 478-494: the second scan is issued
            /\ pc' = [pc EXCEPT ![p] = "rscan2"]
            /\ ops' = [ops EXCEPT ![p].rscan = @ + 1]
            /\ UNCHANGED <<item, nextId, response, faulted>>
       ELSE IF ~IdGeneratorBound(variant[p])
       THEN /\ Finish(p, CaughtError(variant[p]))
            /\ UNCHANGED <<ops, item, nextId, faulted>>
       ELSE /\ pc' = [pc EXCEPT ![p] = "put"]
            /\ IF variant[p] = "index2"
               THEN UNCHANGED <<item, nextId>>
               ELSE /\ item' = [item EXCEPT ![p] = nextId]
                    /\ nextId' = nextId + 1
            /\ ops' = [ops EXCEPT ![p].put = @ + 1]
            /\ UNCHANGED <<response, faulted>>
    /\ UNCHANGED <<tables, reservations, calls, variant, req, returned, parsed>>

\* The put completes.
Put(p, ok) ==
    /\ pc[p] \in {"put", "put2"}
    /\ IF ~ok
       THEN /\ Finish(p, IF pc[p] = "put2" THEN CaughtError(variant[p])
                         ELSE PutError(variant[p]))
            /\ faulted' = [faulted EXCEPT ![p] = TRUE]
            /\ UNCHANGED <<reservations, ops, returned>>
       ELSE /\ reservations' =
                PutItem(reservations,
                        IF pc[p] = "put2" THEN SecondItem(item[p], req[p])
                        ELSE ReservationItem(item[p], req[p]))
            /\ ops' = [ops EXCEPT ![p].written = @ + 1]
            /\ Finish(p, PutDone(variant[p]))
            /\ returned' =
                [returned EXCEPT ![p] = ReturnedId(variant[p], item[p])]
            /\ UNCHANGED faulted
    /\ UNCHANGED <<tables, nextId, calls, variant, req, item, parsed>>

\* parseTime is applied to the slotTimeStart of the request an invocation
\* holds (index.js line 430).
Parse(p) ==
    /\ pc[p] = "idle"
    /\ parsed' = [parsed EXCEPT ![p] = parseTime(req[p].slotTimeStart)]
    /\ pc' = [pc EXCEPT ![p] = "done"]
    /\ UNCHANGED <<tables, reservations, nextId, calls, variant, req, item,
                   ops, faulted, response, returned>>

\* The scan results a reservation scan may deliver in the current state.
Orders ==
    UNION {ScanOrders(FetchReservations(variant[p], req[p])) : p \in Procs}

\* ------------------------------------------------------ specifications
\* The two routines behind the authorizer: index.js and index1.js.
Next ==
    \/ \E p \in Procs, v \in Variants, q \in Requests : Receive(p, v, q)
    \/ \E p \in Procs, ok \in BOOLEAN : TableScan(p, ok)
    \/ \E p \in Procs, ok \in BOOLEAN, order \in Orders :
          ReservationScan(p, ok, order)
    \/ \E p \in Procs, ok \in BOOLEAN : Put(p, ok)

Spec == Init /\ [][Next]_vars

\* Every handler and both routes.
NextRoutes ==
    \/ \E p \in Procs, v \in Variants, q \in Requests : Receive(p, v, q)
    \/ \E p \in Procs, q \in CreateRequests : ReceiveCreate(p, q)
    \/ \E p \in Procs, id \in RawIds, q \in RawRequests : ReceiveRaw(p, id, q)
    \/ \E p \in Procs, v \in AllVariants, t \in TableBodies,
          token \in {"valid", "none"}, ok \in BOOLEAN :
          CreateTable(p, v, t, token, ok)
    \/ \E p \in Procs, ok \in BOOLEAN : TableScan(p, ok)
    \/ \E p \in Procs, ok \in BOOLEAN, order \in Orders :
          ReservationScan(p, ok, order)
    \/ \E p \in Procs, ok \in BOOLEAN : Put(p, ok)

SpecRoutes == Init /\ [][NextRoutes]_vars

\* The two routines that use the Date conflict test, on requests that pass
\* the token and field checks.
NextAlternate ==
    \/ \E p \in Procs, q \in ValidRequests : Receive(p, "index1", q)
    \/ \E p \in Procs, q \in ValidRequests : ReceiveCreate(p, q)
    \/ \E p \in Procs, ok \in BOOLEAN : TableScan(p, ok)
    \/ \E p \in Procs, ok \in BOOLEAN, order \in Orders :
          ReservationScan(p, ok, order)
    \/ \E p \in Procs, ok \in BOOLEAN : Put(p, ok)

SpecAlternate == Init /\ [][NextAlternate]_vars

\* Every route of the two handlers that check a token, on requests that
\* differ in the token.
NextAuth ==
    \/ \E p \in Procs, v \in Variants, q \in TokenRequests : Receive(p, v, q)
    \/ \E p \in Procs, v \in Variants, t \in TableBodies, token \in Tokens,
          ok \in BOOLEAN : CreateTable(p, v, t, token, ok)
    \/ \E p \in Procs, v \in Variants, route \in ReadRoutes, id \in PathIds,
          token \in Tokens, ok \in BOOLEAN : Read(p, v, route, id, token, ok)
    \/ \E p \in Procs, ok \in BOOLEAN : TableScan(p, ok)
    \/ \E p \in Procs, ok \in BOOLEAN, order \in Orders :
          ReservationScan(p, ok, order)
    \/ \E p \in Procs, ok \in BOOLEAN : Put(p, ok)

SpecAuth == Init /\ [][NextAuth]_vars

\* A store that already holds two reservations for table 1 on 2024-06-01,
\* written by two earlier calls that were in flight together, and one call
\* short of MaxCalls.
SeededStores ==
    {{ReservationItem(1, RequestFor(<<1, <<2024, 6, 1>>>>, w1)),
      ReservationItem(2, RequestFor(<<1, <<2024, 6, 1>>>>, w2))} :
        w1 \in Windows, w2 \in Windows}

InitSeeded ==
    /\ tables \in InitialTables
    /\ reservations \in SeededStores
    /\ nextId = 3
    /\ calls = MaxCalls - 1
    /\ pc = [p \in Procs |-> "idle"]
    /\ variant = [p \in Procs |-> "index"]
    /\ req = [p \in Procs |-> NoRequest]
    /\ item = [p \in Procs |-> 0]
    /\ ops = [p \in Procs |-> NoOps]
    /\ faulted = [p \in Procs |-> FALSE]
    /\ response = [p \in Procs |-> NoResponse]
    /\ returned = [p \in Procs |-> 0]
    /\ parsed = [p \in Procs |-> 0]

SpecSeeded == InitSeeded /\ [][Next]_vars

\* parseTime applied to every time string of a day.
InitParse ==
    /\ tables \in InitialTables
    /\ reservations = {}
    /\ nextId = 1
    /\ calls = 0
    /\ pc = [p \in Procs |-> "idle"]
    /\ variant = [p \in Procs |-> "index"]
    /\ req \in {[p \in Procs |->
                    IF p = 1 THEN [NoRequest EXCEPT !.slotTimeStart = t]
                    ELSE NoRequest] : t \in TimeStrings}
    /\ item = [p \in Procs |-> 0]
    /\ ops = [p \in Procs |-> NoOps]
    /\ faulted = [p \in Procs |-> FALSE]
    /\ response = [p \in Procs |-> NoResponse]
    /\ returned = [p \in Procs |-> 0]
    /\ parsed = [p \in Procs |-> 0]

NextParse == \E p \in Procs : Parse(p)

SpecParse == InitParse /\ [][NextParse]_vars

\* ------------------------------------------------------------ properties
\* Reference notions the properties are stated with.
MinuteOfDay(t) == t[1] * 60 + t[2]

ProperWindow(r) == MinuteOfDay(r.slotTimeStart) < MinuteOfDay(r.slotTimeEnd)

\* The half-open windows of q and r share at least one instant.
ShareInstant(q, r) ==
    \E t \in MinuteOfDay(q.slotTimeStart) .. (MinuteOfDay(q.slotTimeEnd) - 1) :
        MinuteOfDay(r.slotTimeStart) <= t /\ t < MinuteOfDay(r.slotTimeEnd)

SameTarget(q, r) == q.tableNumber = r.tableNumber /\ q.date = r.date

AllSixPresent(q) ==
    /\ q.tableNumber # 0
    /\ q.clientName # ""
    /\ q.phoneNumber # ""
    /\ q.date # Missing
    /\ q.slotTimeStart # Missing
    /\ q.slotTimeEnd # Missing

\* The call of p has ended with this outcome.
Ended(p, kind) == pc[p] = "done" /\ response[p].kind = kind

\* The stored reservations other than the one p itself wrote.
OthersFor(p) ==
    {r \in reservations : r.id # item[p] /\ SameTarget(req[p], r)}

\* C2: the insert is not atomic with the fetch. A call whose put succeeds
\* adds its record to the store whatever the store holds by then, so two
\* concurrent calls that both fetched before either inserted are both
\* persisted.
C2_InsertIgnoresStore ==
    [][\A p \in Procs :
          (pc[p] = "put" /\ pc'[p] = "done" /\ response'[p].kind = "Success")
          => reservations' =
                reservations \cup {ReservationItem(item[p], req[p])}]_vars

\* C2 witness: two persisted reservations with the same table, date and
\* proper window, written by two calls that were in flight together.
C2_Witness ==
    /\ Ended(1, "Success") /\ Ended(2, "Success")
    /\ \E r1, r2 \in reservations :
          /\ r1.id = item[1] /\ r2.id = item[2] /\ r1.id # r2.id
          /\ SameTarget(r1, r2)
          /\ r1.slotTimeStart = r2.slotTimeStart
          /\ r1.slotTimeEnd = r2.slotTimeEnd
          /\ ProperWindow(r1)

\* C3 (as claimed): a handleCreateReservation call with all fields present,
\* an existing table and no stored reservation for its table and date ends
\* in success with its record written.
C3_AdmittedWhenNoReservations ==
    \A p \in Procs :
        ( /\ pc[p] = "done" /\ variant[p] = "index"
          /\ Authorized(req[p]) /\ AllSixPresent(req[p]) /\ ~faulted[p]
          /\ \E t \in tables : t.number = req[p].tableNumber
          /\ OthersFor(p) = {} )
        => ( /\ response[p] = formatResponse(200, "Success")
             /\ ReservationItem(item[p], req[p]) \in reservations )

\* C4: when the table scan of a call finds no table with the requested
\* number, the call ends as table-not-found, and such a call has issued no
\* reservation scan and no put and leaves the reservation store as it is.
C4_TableAbsentRejected ==
    /\ [](\A p \in Procs :
            Ended(p, "TableNotFound")
            => /\ response[p].statusCode = 400
               /\ ops[p].rscan = 0 /\ ops[p].put = 0 /\ ops[p].written = 0)
    /\ [][\A p \in Procs :
            ( /\ pc[p] = "tscan" /\ pc'[p] # "tscan" /\ ~faulted'[p]
              /\ ~\E t \in tables : t.number = req[p].tableNumber )
            => ( /\ pc'[p] = "done"
                 /\ response'[p] = formatResponse(400, "TableNotFound")
                 /\ reservations' = reservations )]_vars

\* C4 witness: a call for table number 2 was rejected as table-not-found
\* while a table with storage id 2 exists.
C4_Witness ==
    \E p \in Procs :
        /\ Ended(p, "TableNotFound")
        /\ \E t \in tables : t.id = req[p].tableNumber

\* C5: when the reservation scan of a handleCreateReservation call runs on a
\* store holding a reservation for the same table and date with
\* newStart < existingEnd and existingStart < newEnd, the call ends as an
\* overlap conflict and the store is unchanged.
C5_OverlapRejected ==
    /\ [](\A p \in Procs : Ended(p, "Overlap") => ops[p].written = 0)
    /\ [][\A p \in Procs :
            ( /\ pc[p] = "rscan" /\ variant[p] = "index"
              /\ pc'[p] # "rscan" /\ ~faulted'[p]
              /\ \E r \in reservations :
                    /\ SameTarget(req[p], r)
                    /\ MinuteOfDay(req[p].slotTimeStart)
                          < MinuteOfDay(r.slotTimeEnd)
                    /\ MinuteOfDay(r.slotTimeStart)
                          < MinuteOfDay(req[p].slotTimeEnd) )
            => ( /\ pc'[p] = "done"
                 /\ response'[p] = formatResponse(400, "Overlap")
                 /\ reservations' = reservations )]_vars

\* C5 witness: a handleCreateReservation call for 18:30-19:30 was rejected
\* as overlapping a stored 18:00-19:00 reservation.
C5_Witness ==
    \E p \in Procs :
        /\ Ended(p, "Overlap") /\ variant[p] = "index"
        /\ req[p].slotTimeStart = <<18, 30>> /\ req[p].slotTimeEnd = <<19, 30>>
        /\ \E r \in OthersFor(p) :
              r.slotTimeStart = <<18, 0>> /\ r.slotTimeEnd = <<19, 0>>

\* C6 (as claimed): a call whose window starts where the only stored
\* reservation for its table and date ends, or ends where it starts, ends in
\* success, for both routines.
C6_BackToBackAdmitted ==
    \A p \in Procs :
        ( /\ pc[p] = "done"
          /\ Authorized(req[p]) /\ AllSixPresent(req[p]) /\ ~faulted[p]
          /\ ProperWindow(req[p])
          /\ \E t \in tables : t.number = req[p].tableNumber
          /\ \E r \in reservations :
                /\ OthersFor(p) = {r}
                /\ ProperWindow(r)
                /\ \/ req[p].slotTimeStart = r.slotTimeEnd
                   \/ req[p].slotTimeEnd = r.slotTimeStart )
        => response[p].kind = "Success"

\* C7: for windows with start before end, the conflict test of
\* handleCreateReservation is true exactly when the two half-open windows
\* share an instant.
C7_OverlapIffShareInstant ==
    \A p \in Procs :
        (pc[p] = "rscan" /\ variant[p] = "index" /\ ProperWindow(req[p]))
        => \A r \in reservations :
              ProperWindow(r)
              => ( Overlaps(parseTime(req[p].slotTimeStart),
                            parseTime(req[p].slotTimeEnd),
                            parseTime(r.slotTimeStart),
                            parseTime(r.slotTimeEnd))
                   <=> ShareInstant(req[p], r) )

\* C7 witness: the test is about to run on a candidate and a stored window
\* that overlap in part.
C7_Witness ==
    \E p \in Procs :
        /\ pc[p] = "rscan" /\ variant[p] = "index"
        /\ \E r \in reservations :
              /\ ProperWindow(r) /\ ProperWindow(req[p])
              /\ MinuteOfDay(req[p].slotTimeStart) < MinuteOfDay(r.slotTimeStart)
              /\ MinuteOfDay(r.slotTimeStart) < MinuteOfDay(req[p].slotTimeEnd)
              /\ MinuteOfDay(req[p].slotTimeEnd) < MinuteOfDay(r.slotTimeEnd)

\* C8: the conflict test gives the same answer when candidate and existing
\* window change places, zero-length and inverted windows included.
C8_OverlapSymmetric ==
    \A p \in Procs :
        (pc[p] = "rscan" /\ variant[p] = "index")
        => \A r \in reservations :
              Overlaps(parseTime(req[p].slotTimeStart),
                       parseTime(req[p].slotTimeEnd),
                       parseTime(r.slotTimeStart),
                       parseTime(r.slotTimeEnd))
              = Overlaps(parseTime(r.slotTimeStart),
                         parseTime(r.slotTimeEnd),
                         parseTime(req[p].slotTimeStart),
                         parseTime(req[p].slotTimeEnd))

\* C8 witness: the test is about to run on an inverted candidate against a
\* stored proper window that lies inside the candidate's bounds.
C8_Witness ==
    \E p \in Procs :
        /\ pc[p] = "rscan" /\ variant[p] = "index"
        /\ ~ProperWindow(req[p])
        /\ \E r \in reservations :
              /\ ProperWindow(r)
              /\ MinuteOfDay(req[p].slotTimeEnd) <= MinuteOfDay(r.slotTimeStart)
              /\ MinuteOfDay(r.slotTimeEnd) <= MinuteOfDay(req[p].slotTimeStart)

\* C9: a call that returns success has made exactly one write, a call that
\* returns anything else has made none; only the put of a call that returns
\* success changes the reservation store, and no call changes the table
\* store.
C9_OneWriteOnSuccessOnly ==
    /\ [](\A p \in Procs :
            pc[p] = "done"
            => IF response[p].kind = "Success"
               THEN /\ ops[p].written = 1 /\ ops[p].put = 1
                    /\ ReservationItem(item[p], req[p]) \in reservations
               ELSE ops[p].written = 0)
    /\ [][ /\ tables' = tables
           /\ reservations' # reservations
              => \E p \in Procs :
                    /\ pc[p] = "put" /\ response'[p].kind = "Success"
                    /\ reservations' =
                          reservations \cup {ReservationItem(item[p], req[p])}
         ]_vars

\* C9 witness: one call has returned success and another one was rejected
\* after its put failed.
C9_Witness ==
    \E p, p2 \in Procs :
        /\ Ended(p, "Success") /\ ops[p].written = 1
        /\ pc[p2] = "done" /\ faulted[p2] /\ ops[p2].put = 1
        /\ ops[p2].written = 0

\* C10 (as claimed): a handleCreateReservation call with any one of the six
\* fields missing issues no store operation and ends as missing-fields.
C10_MissingFieldRejectedFirst ==
    \A p \in Procs :
        ( /\ pc[p] # "idle" /\ variant[p] = "index"
          /\ Authorized(req[p]) /\ ~AllSixPresent(req[p]) )
        => ( /\ ops[p] = NoOps
             /\ pc[p] = "done"
             /\ response[p] = formatResponse(400, "MissingFields") )

\* The outcomes of a request that is itself at fault.
ClientErrors ==
    {formatResponse(400, "MissingFields"), formatResponse(400, "TableNotFound"),
     formatResponse(400, "Overlap")}

FetchedFor(q, store) == {r \in store : SameTarget(q, r)}

\* C12: the step in which the put of an admitted call succeeds adds one
\* record to the store; its six fields are those of the request, its id is
\* the reservationId of the response and the id of no record stored before,
\* and the reservations for the request's table and date are one more than
\* before.
C12_RecordMatchesRequest ==
    [][\A p \in Procs :
          (pc[p] = "put" /\ pc'[p] = "done" /\ response'[p].kind = "Success")
          => \E r \in reservations' :
                /\ r.id = returned'[p]
                /\ r.tableNumber = req[p].tableNumber
                /\ r.clientName = req[p].clientName
                /\ r.phoneNumber = req[p].phoneNumber
                /\ r.date = req[p].date
                /\ r.slotTimeStart = req[p].slotTimeStart
                /\ r.slotTimeEnd = req[p].slotTimeEnd
                /\ \A r0 \in reservations : r0.id # r.id
                /\ Cardinality(FetchedFor(req[p], reservations'))
                      = Cardinality(FetchedFor(req[p], reservations)) + 1]_vars

\* C12 witness: a call was admitted into a store that already held a
\* reservation for its table and date, and its record is stored under the
\* returned id.
C12_Witness ==
    \E p \in Procs :
        /\ Ended(p, "Success") /\ returned[p] # 0
        /\ \E r \in reservations : r.id = returned[p] /\ SameTarget(req[p], r)
        /\ Cardinality(FetchedFor(req[p], reservations)) = 2

\* C13 (as claimed): the decision of a call about to run its conflict test
\* is the decision it would take on the stored reservations that have its
\* tableNumber and its date string alone, whatever else the store holds.
C13_DecisionDependsOnTargetOnly ==
    \A p \in Procs :
        pc[p] = "rscan"
        => LET all == FetchReservations(variant[p], req[p])
               own == {r \in all : SameTarget(req[p], r)}
           IN  \A o1 \in ScanOrders(all), o2 \in ScanOrders(own) :
                  HasConflict(variant[p], req[p], o1)
                  = HasConflict(variant[p], req[p], o2)

\* The conflict test of handleCreateReservation on request q and record r.
OverlapsRecord(q, r) ==
    Overlaps(parseTime(q.slotTimeStart), parseTime(q.slotTimeEnd),
             parseTime(r.slotTimeStart), parseTime(r.slotTimeEnd))

\* C14: the loop of handleCreateReservation returns at the first fetched
\* reservation that conflicts, and whether it returns there or runs to the
\* end is the same for every order of the fetched reservations; the outcome
\* of the call is overlap exactly when the loop returns at a reservation.
C14_OrderIrrelevant ==
    /\ [](\A p \in Procs :
            (pc[p] = "rscan" /\ variant[p] = "index")
            => \A o1, o2 \in ScanOrders(FetchReservations("index", req[p])) :
                  /\ (FirstConflict(req[p], o1) # 0)
                        = (FirstConflict(req[p], o2) # 0)
                  /\ FirstConflict(req[p], o1) # 0
                     => /\ OverlapsRecord(req[p], o1[FirstConflict(req[p], o1)])
                        /\ \A j \in 1 .. (FirstConflict(req[p], o1) - 1) :
                              ~OverlapsRecord(req[p], o1[j]))
    /\ [][\A p \in Procs :
            ( /\ pc[p] = "rscan" /\ variant[p] = "index"
              /\ pc'[p] = "done" /\ ~faulted'[p] )
            => \A o \in ScanOrders(FetchReservations("index", req[p])) :
                  (response'[p].kind = "Overlap")
                  = (FirstConflict(req[p], o) # 0)]_vars

\* C14 witness: the loop is about to run on two fetched reservations of
\* which one conflicts with the request and the other does not.
C14_Witness ==
    \E p \in Procs :
        /\ pc[p] = "rscan" /\ variant[p] = "index"
        /\ \E r1, r2 \in FetchReservations("index", req[p]) :
              /\ r1 # r2
              /\ OverlapsRecord(req[p], r1)
              /\ ~OverlapsRecord(req[p], r2)

\* No two records of a table store have the same number.
NumbersUnique(store) ==
    \A t1, t2 \in store : t1.number = t2.number => t1 = t2

\* C15 (as claimed): a create-table operation of handleCreateTable (index.js)
\* or createTable (index1.js) on a table store with unique numbers leaves a
\* table store with unique numbers.
C15_TableNumbersUnique ==
    [][\A p \in Procs :
          ( /\ calls' = calls + 1
            /\ variant'[p] \in {"index", "index1"}
            /\ pc'[p] = "done" /\ response'[p].kind = "TableCreated"
            /\ tables' # tables
            /\ NumbersUnique(tables) )
          => NumbersUnique(tables')]_vars

\* C16 (as claimed): no step of any handler removes or changes a stored
\* reservation: every record of the reservation store is in the store, with
\* the same id and the same fields, after the step.
C16_ReservationNeverMutated ==
    [][\A r \in reservations : r \in reservations']_vars

\* Time of day a is earlier than time of day b.
EarlierTime(a, b) == a[1] < b[1] \/ (a[1] = b[1] /\ a[2] < b[2])

\* C17: for a time string with hour in 0..23 and minute in 0..59 parseTime
\* returns hour*60+minute, a value in 0..1439, and an earlier time string
\* of the day gives a smaller value, a later one a greater value.
C17_ParseTimeMinutes ==
    \A p \in Procs :
        pc[p] = "done"
        => LET t == req[p].slotTimeStart
           IN  /\ parsed[p] = t[1] * 60 + t[2]
               /\ parsed[p] \in 0 .. 1439
               /\ \A t2 \in TimeStrings :
                     /\ EarlierTime(t, t2) => parsed[p] < parseTime(t2)
                     /\ EarlierTime(t2, t) => parseTime(t2) < parsed[p]

\* C17 witness: parseTime has been applied to "23:59" and to "18:00".
C17_Witness ==
    /\ pc[1] = "done" /\ pc[2] = "done"
    /\ req[1].slotTimeStart = <<23, 59>> /\ parsed[1] = 1439
    /\ req[2].slotTimeStart = <<18, 0>> /\ parsed[2] = 1080

\* The window of a lies within the window of b, bounds included.
Within(a, b) ==
    /\ MinuteOfDay(b.slotTimeStart) <= MinuteOfDay(a.slotTimeStart)
    /\ MinuteOfDay(a.slotTimeEnd) <= MinuteOfDay(b.slotTimeEnd)

\* The window of a lies strictly inside the window of b.
StrictlyInside(a, b) ==
    /\ MinuteOfDay(b.slotTimeStart) < MinuteOfDay(a.slotTimeStart)
    /\ MinuteOfDay(a.slotTimeEnd) < MinuteOfDay(b.slotTimeEnd)

\* C18 (as claimed): in handleCreateReservation, createReservation and
\* validateReservation alike, a call whose conflict test runs on a store
\* holding a reservation for its table and date whose window lies inside the
\* requested one, or contains it, or equals it, ends as an overlap conflict.
C18_ContainmentRejected ==
    [][\A p \in Procs :
          ( /\ pc[p] = "rscan" /\ pc'[p] # "rscan" /\ ~faulted'[p]
            /\ variant[p] \in {"index", "index1", "index2"}
            /\ ProperWindow(req[p])
            /\ \E r \in reservations :
                  /\ SameTarget(req[p], r) /\ ProperWindow(r)
                  /\ Within(r, req[p]) \/ Within(req[p], r) )
          => response'[p] = formatResponse(400, "Overlap")]_vars

\* The requested window q reaches beyond the stored window r on one side
\* only and shares its other bound.
OneSided(q, r) ==
    \/ /\ MinuteOfDay(q.slotTimeStart) < MinuteOfDay(r.slotTimeStart)
       /\ q.slotTimeEnd = r.slotTimeEnd
    \/ /\ q.slotTimeStart = r.slotTimeStart
       /\ MinuteOfDay(r.slotTimeEnd) < MinuteOfDay(q.slotTimeEnd)

\* C19 (as claimed): the Date conflict test of createReservation and
\* validateReservation reports no conflict for a request that reaches beyond
\* a stored reservation of its table and date on one side only.
C19_OneSidedMissed ==
    \A p \in Procs :
        (pc[p] = "rscan" /\ variant[p] \in {"index1", "index2"})
        => \A r \in FetchReservations(variant[p], req[p]) :
              ( /\ SameTarget(req[p], r)
                /\ ProperWindow(r) /\ ProperWindow(req[p])
                /\ OneSided(req[p], r) )
              => ~Conflict1(r, req[p])

\* C19 (amended): for a request and a stored reservation of the same table
\* and date, both with start before end, the Date conflict test reports a
\* conflict when the request reaches beyond the reservation on one side
\* only; the overlapping pairs for which it reports none are exactly those in
\* which the reservation lies strictly inside the request, on both sides.
C19_StrictContainmentMissed ==
    \A p \in Procs :
        (pc[p] = "rscan" /\ variant[p] \in {"index1", "index2"})
        => \A r \in FetchReservations(variant[p], req[p]) :
              (SameTarget(req[p], r) /\ ProperWindow(r) /\ ProperWindow(req[p]))
              => /\ OneSided(req[p], r) => Conflict1(r, req[p])
                 /\ (ShareInstant(req[p], r) /\ ~Conflict1(r, req[p]))
                       <=> StrictlyInside(r, req[p])

\* C19 witness: validateReservation is about to test a request for
\* 18:00-19:30 against a stored reservation for 18:30-19:00.
C19_Witness ==
    \E p \in Procs :
        /\ pc[p] = "rscan" /\ variant[p] = "index2"
        /\ req[p].slotTimeStart = <<18, 0>> /\ req[p].slotTimeEnd = <<19, 30>>
        /\ \E r \in FetchReservations("index2", req[p]) :
              /\ SameTarget(req[p], r)
              /\ r.slotTimeStart = <<18, 30>> /\ r.slotTimeEnd = <<19, 0>>

\* C20 (as claimed): in every handler the put of a reservation is issued
\* only by a call that has scanned the tables and found the requested one,
\* and at the completion of a reservation scan in which no fetched
\* reservation conflicted.
C20_InsertAfterBothChecks ==
    [][\A p \in Procs :
          (pc[p] # "put" /\ pc'[p] = "put")
          => /\ pc[p] = "rscan"
             /\ ops[p].tscan = 1 /\ ops[p].rscan = 1
             /\ TablesByNumber(req[p].tableNumber) # {}
             /\ \A o \in ScanOrders(FetchReservations(variant[p], req[p])) :
                   ~HasConflict(variant[p], req[p], o)]_vars

\* C21: no handleCreateReservation call issues the scan or the put of the
\* second implementation (index.js lines 478-520): no call is ever at one of
\* them and no call issues more than one reservation scan or, after the put
\* of the first block, another put; a call that has passed the conflict test
\* has ended in the first block or before it.
C21_SecondImplementationDead ==
    /\ [](\A p \in Procs :
            /\ pc[p] \notin {"rscan2", "put2"}
            /\ variant[p] = "index" => ops[p].rscan <= 1 /\ ops[p].put <= 1)
    /\ [][\A p \in Procs :
            ( /\ pc[p] = "rscan" /\ variant[p] = "index"
              /\ pc'[p] # "rscan" )
            => pc'[p] \in {"done", "put"}]_vars

\* C21 witness: a handleCreateReservation call has passed the conflict test
\* and ended with one reservation scan issued and nothing written.
C21_Witness ==
    \E p \in Procs :
        /\ pc[p] = "done" /\ variant[p] = "index" /\ ~faulted[p]
        /\ ops[p].rscan = 1 /\ ops[p].written = 0
        /\ response[p] = CaughtError("index")

\* The call of p waits for a store operation.
InFlight(p) == pc[p] \in {"tscan", "rscan", "put"}

\* How far a call has come.
Progress(p) ==
    CASE pc[p] = "idle" -> 0
      [] pc[p] = "tscan" -> 1
      [] pc[p] = "rscan" -> 2
      [] pc[p] = "put" -> 3
      [] OTHER -> 4

\* C22: a call issues the table scan, the reservation scan and the put at
\* most once each, also after a store operation threw; a call that waits for
\* a store operation can always take its next step, every step takes it
\* further towards its end, a thrown store operation ends it at once with
\* nothing more issued, and the outcome it ended with stays as it is until
\* the next call arrives.
C22_OneOutcomeNoRetry ==
    /\ [](\A p \in Procs :
            /\ ops[p].tscan <= 1 /\ ops[p].rscan <= 1
            /\ ops[p].put <= 1 /\ ops[p].written <= 1
            /\ InFlight(p) <=> response[p] = NoResponse /\ pc[p] # "idle"
            /\ InFlight(p)
               => ENABLED ( \/ TableScan(p, TRUE)
                            \/ \E order \in Orders :
                                  ReservationScan(p, TRUE, order)
                            \/ Put(p, TRUE) ))
    /\ [][\A p \in Procs :
            /\ (InFlight(p) /\ (pc'[p] # pc[p] \/ ops'[p] # ops[p]))
               => Progress(p)' > Progress(p)
            /\ (faulted'[p] /\ ~faulted[p])
               => pc'[p] = "done" /\ ops'[p] = ops[p]
            /\ (pc[p] = "done" /\ calls' = calls)
               => pc'[p] = "done" /\ response'[p] = response[p]]_vars

\* C22 witness: one call has ended after its reservation scan threw, with
\* one table scan and one reservation scan issued, and another one has ended
\* in success with each of the three operations issued once.
C22_Witness ==
    \E p, p2 \in Procs :
        /\ pc[p] = "done" /\ faulted[p]
        /\ ops[p].tscan = 1 /\ ops[p].rscan = 1 /\ ops[p].put = 0
        /\ Ended(p2, "Success")
        /\ ops[p2].tscan = 1 /\ ops[p2].rscan = 1 /\ ops[p2].put = 1

\* The fields handleCreateReservation tests are present and the window of
\* the request is zero-length or inverted.
Unordered(q) ==
    /\ q.tableNumber # 0 /\ q.date # Missing
    /\ q.slotTimeStart # Missing /\ q.slotTimeEnd # Missing
    /\ MinuteOfDay(q.slotTimeEnd) <= MinuteOfDay(q.slotTimeStart)

\* C23: a handleCreateReservation call with slotTimeEnd <= slotTimeStart and
\* a token that passes is never rejected for its fields, issues the table
\* scan, and when its reservation scan completes on a store with no
\* reservation for its table and date it is not rejected as overlapping
\* either: it goes on to the id generation of the insert block.
C23_WindowNotValidated ==
    /\ [](\A p \in Procs :
            ( /\ pc[p] # "idle" /\ variant[p] = "index"
              /\ Authorized(req[p]) /\ Unordered(req[p]) )
            => /\ response[p] # formatResponse(400, "MissingFields")
               /\ ops[p].tscan = 1)
    /\ [][\A p \in Procs :
            ( /\ pc[p] = "rscan" /\ variant[p] = "index"
              /\ Unordered(req[p])
              /\ FetchedFor(req[p], reservations) = {}
              /\ pc'[p] # "rscan" /\ ~faulted'[p] )
            => /\ response'[p] \notin ClientErrors
               /\ \/ pc'[p] = "put"
                  \/ pc'[p] = "done" /\ response'[p] = CaughtError("index")
         ]_vars

\* C23 witness: handleCreateReservation calls for 19:30-18:00 and for
\* 19:00-19:00 have passed the conflict test and ended at the id generation.
C23_Witness ==
    /\ \A p \in Procs :
          /\ pc[p] = "done" /\ variant[p] = "index" /\ ~faulted[p]
          /\ ops[p].rscan = 1
          /\ response[p] = CaughtError("index")
    /\ req[1].slotTimeStart = <<19, 30>> /\ req[1].slotTimeEnd = <<18, 0>>
    /\ req[2].slotTimeStart = <<19, 0>> /\ req[2].slotTimeEnd = <<19, 0>>

\* The outcome of a call that runs with no other call, on a store without
\* reservations and with no store operation throwing.
AloneOutcome(v, q) ==
    IF ~Authorized(q) THEN AuthFailure(v)
    ELSE IF ~FieldsPresent(v, q) THEN formatResponse(400, "MissingFields")
    ELSE IF TablesByNumber(q.tableNumber) = {}
    THEN formatResponse(400, "TableNotFound")
    ELSE IF ~IdGeneratorBound(v) THEN CaughtError(v)
    ELSE PutDone(v)

\* C24 (as claimed): two calls that were in flight together, for different
\* (tableNumber, date) pairs and with no store operation throwing, end each
\* with the outcome it has when it runs before the other, and the store
\* holds the records of those that succeeded and nothing else.
C24_OtherTargetsIndependent ==
    ( /\ calls = 2
      /\ \A p \in Procs : pc[p] = "done" /\ ~faulted[p]
      /\ ~SameTarget(req[1], req[2]) )
    => /\ \A p \in Procs : response[p] = AloneOutcome(variant[p], req[p])
       /\ reservations =
             {ReservationItem(item[p], req[p]) :
                 p \in {p2 \in Procs : response[p2].kind = "Success"}}

\* C25: a call to the first handler of index.js or to index1.js whose token
\* is missing or lacks the claims has its error response at once and has
\* issued no scan, get or put; the step in which it arrives leaves both
\* stores as they are.
C25_NoStoreOpUnauthenticated ==
    /\ [](\A p \in Procs :
            ( /\ pc[p] # "idle" /\ variant[p] \in {"index", "index1"}
              /\ req[p].token # "valid" )
            => /\ pc[p] = "done"
               /\ ops[p] = NoOps
               /\ response[p] = AuthFailure(variant[p]))
    /\ [][\A p \in Procs :
            ( /\ calls' = calls + 1
              /\ Free(p) /\ \A p2 \in Procs : Free(p2) => p <= p2
              /\ variant'[p] \in {"index", "index1"}
              /\ req'[p].token # "valid" )
            => tables' = tables /\ reservations' = reservations]_vars

\* C25 witness: while a createReservation call waits for its put, a call
\* with a token without claims was answered by index.js with no store
\* operation issued.
C25_Witness ==
    /\ pc[1] = "put" /\ variant[1] = "index1"
    /\ pc[2] = "done" /\ variant[2] = "index"
    /\ req[2].token = "noclaims" /\ ops[2] = NoOps
    /\ response[2] = formatResponse(400, "Unauthorized")

====
